---- MODULE Spec2Model ----
(***************************************************************************)
(* A model of the anki web backend (src/anki/views.py): the relational     *)
(* store (users, decks, deck descriptions, cards, stats) and one action    *)
(* per HTTP handler.  SignUp and PostFeedback issue several queries with   *)
(* no transaction around them, so each of their queries that another       *)
(* request can observe is a step of its own; the other handlers are one    *)
(* action each.                                                            *)
(*                                                                         *)
(* Encoding.  Usernames and e-mail addresses are naturals, 0 standing for  *)
(* the empty or missing string (the anonymous user's username is '').      *)
(* Deck names, colours and card texts are strings, so that len() is Len.   *)
(* A caller is the primary key of the authenticated user, 0 when the       *)
(* request carries no token.  Primary keys are auto-increment counters     *)
(* and are never reused.                                                   *)
(***************************************************************************)
EXTENDS Integers, Sequences, FiniteSets, TLC

VARIABLES
    users,          \* auth_user: sequence, the index is the primary key
    decks,          \* anki_deck: pk -> [name, color, public, owner]
    descriptions,   \* anki_deckdescription: deck pk -> description
    cards,          \* anki_card: pk -> [question, answer, deck]
    stats,          \* anki_stat: pk -> [datetime, feedback, owner, card]
    deckSeq,        \* last primary key given to a deck
    cardSeq,        \* last primary key given to a card
    statSeq,        \* last primary key given to a stat
    signups,        \* SignUp.post requests in flight, per worker
    feedbacks,      \* PostFeedback.post requests in flight, per worker
    req,            \* the request (or the step of one) handled last
    resp            \* the response it got; NoResponse while it is in flight

vars == <<users, decks, descriptions, cards, stats, deckSeq, cardSeq, statSeq,
          signups, feedbacks, req, resp>>

store == <<decks, descriptions, cards, stats, deckSeq, cardSeq, statSeq>>

(***************************************************************************)
(* Program constants and settings.                                         *)
(***************************************************************************)
ACCOUNT_VERIFICATION_QUEUE_LIMIT == 20

QUEUE_LIMIT == ACCOUNT_VERIFICATION_QUEUE_LIMIT

USER_DECK_LIMIT == 30

USER_CARD_STAT_LIMIT == 100

\* The literal of the card number check in validate_and_normalize_deck_stuff.
DECK_CARD_LIMIT == 100

\* api.settings.JWT_AUTH: the deployment the specification describes.
JWT_AUTH == TRUE

\* get_random_string(length=32) and the length SignUpVerify asks for.
CODE_LENGTH == 32

(***************************************************************************)
(* Bounds of the model.                                                    *)
(***************************************************************************)
\* Workers that may hold a SignUp or a PostFeedback request in flight.
MaxInFlight == 2

\* Users a run of SpecAccounts may create.
MaxUsers == 2

\* Signups a run of SpecQueue may add beyond the queue limit.
QueueSlack == 1

\* Stats a run of SpecStats may insert beyond the stat limit.
StatSlack == 2

\* Decks and cards a run of SpecDecks or SpecCards may create.
MaxDecks == 2

MaxCards == 3

\* Entries in the card list of a request of SpecCards.
MaxCardList == 2

\* Stats a run of SpecPull or SpecShared may record.
MaxStats == 2

\* Decks a run of SpecDeckLimit may make after the ones it starts with.
DeckSlack == 3

\* Cards a run of SpecCardLimit may make after the ones it starts with.
CardSlack == 1

Workers == 1..MaxInFlight

(***************************************************************************)
(* Responses and tables.                                                   *)
(***************************************************************************)
Response(code, status) == [code |-> code, status |-> status]

NoResponse == Response("NONE", 0)

\* An uncaught exception: Django answers 500.
ServerError == Response("EXCEPTION", 500)

\* A table without the rows whose keys are in ks.
Without(table, ks) == [k \in DOMAIN table \ ks |-> table[k]]

EmptyTable == [k \in {} |-> 0]

UserIds == 1..Len(users)

\* request.user.username: '' for AnonymousUser.
JwtUsername(caller) == IF caller = 0 THEN 0 ELSE users[caller].username

\* request.user.is_active: False for AnonymousUser.
JwtIsActive(caller) == IF caller = 0 THEN FALSE ELSE users[caller].is_active

\* User.objects.filter(username=...)
UsersNamed(username) == {u \in UserIds : users[u].username = username}

\* User.objects.filter(is_active=False).count()
NonActiveUsersNum == Cardinality({u \in UserIds : ~users[u].is_active})

(***************************************************************************)
(* validate_and_normalize_signup_form.  A form is                          *)
(* [typed, username, email, password_ok]: typed says that the three keys   *)
(* are there and are strings, password_ok that the password matches the    *)
(* password pattern; username 0 is the empty string, which the username    *)
(* pattern rejects, and email 0 an address validate_email rejects.         *)
(***************************************************************************)
SignupFormValid(data) ==
    /\ data.typed
    /\ data.username # 0
    /\ data.email # 0
    /\ data.password_ok

IdleSignup ==
    [pc |-> "idle", non_active_users_num |-> 0, username |-> 0, email |-> 0,
     new_user |-> 0]

IdleFeedback == [pc |-> "idle", owner |-> 0, card |-> 0, stat |-> 0]

Quiet ==
    /\ \A w \in Workers : signups[w].pc = "idle"
    /\ \A w \in Workers : feedbacks[w].pc = "idle"

\* The users a SignUp in flight has inserted and not yet saved as inactive.
HalfSignedUp == {signups[w].new_user : w \in {v \in Workers : signups[v].pc = "deactivate"}}

\* The verification code of the user with primary key u.
EmailCode(u) == [len |-> CODE_LENGTH, key |-> u]

(***************************************************************************)
(* SignUp.post                                                             *)
(***************************************************************************)
\* The queue check with the comparison off by one.
QueueIsFullOffByOne(non_active_users_num) == non_active_users_num > QUEUE_LIMIT

\* non_active_users_num >= QUEUE_LIMIT
QueueIsFull(non_active_users_num) == non_active_users_num >= QUEUE_LIMIT

\* Steps 1 and 2: the queue check, then the validation of the form.
SignUpCheckQueue(w, data) ==
    /\ signups[w].pc = "idle"
    /\ req' = [op |-> "signup", step |-> "queue", worker |-> w, data |-> data]
    /\ IF QueueIsFull(NonActiveUsersNum)
       THEN /\ resp' = Response("QUEUE", 409)
            /\ UNCHANGED signups
       ELSE IF ~SignupFormValid(data)
       THEN /\ resp' = Response("VALIDATION", 400)
            /\ UNCHANGED signups
       ELSE /\ resp' = NoResponse
            /\ signups' = [signups EXCEPT ![w] =
                   [pc |-> "email", non_active_users_num |-> NonActiveUsersNum,
                    username |-> data.username, email |-> data.email,
                    new_user |-> 0]]
    /\ UNCHANGED <<users, store, feedbacks>>

\* Step 3, first half: User.objects.filter(email=email).exists()
SignUpCheckEmail(w) ==
    /\ signups[w].pc = "email"
    /\ req' = [op |-> "signup", step |-> "email", worker |-> w]
    /\ IF \E u \in UserIds : users[u].email = signups[w].email
       THEN /\ resp' = Response("EMAIL_CONFLICT", 409)
            /\ signups' = [signups EXCEPT ![w] = IdleSignup]
       ELSE /\ resp' = NoResponse
            /\ signups' = [signups EXCEPT ![w].pc = "create"]
    /\ UNCHANGED <<users, store, feedbacks>>

\* The row create_user inserts: is_active is the model's default.
CreatedUser(username, email, code) ==
    [username |-> username, email |-> email, is_active |-> TRUE,
     last_name |-> code]

\* Step 3, second half: User.objects.create_user(...); the unique username
\* makes the insert raise IntegrityError.
SignUpCreateUser(w) ==
    /\ signups[w].pc = "create"
    /\ req' = [op |-> "signup", step |-> "create", worker |-> w]
    /\ IF UsersNamed(signups[w].username) # {}
       THEN /\ resp' = Response("UNAME_CONFLICT", 409)
            /\ signups' = [signups EXCEPT ![w] = IdleSignup]
            /\ UNCHANGED users
       ELSE /\ resp' = NoResponse
            /\ users' = Append(users,
                   CreatedUser(signups[w].username, signups[w].email,
                               EmailCode(Len(users) + 1)))
            /\ signups' = [signups EXCEPT ![w].pc = "deactivate",
                                          ![w].new_user = Len(users) + 1]
    /\ UNCHANGED <<store, feedbacks>>

\* new_user.is_active = False; new_user.save(); then steps 4 and 5: the mail
\* and the response.
SignUpDeactivate(w, emailing_succeeded) ==
    /\ signups[w].pc = "deactivate"
    /\ req' = [op |-> "signup", step |-> "deactivate", worker |-> w]
    /\ users' = [users EXCEPT ![signups[w].new_user].is_active = FALSE]
    /\ resp' = Response(IF emailing_succeeded THEN "OKAY" ELSE "MAIL_NOT_SENT", 200)
    /\ signups' = [signups EXCEPT ![w] = IdleSignup]
    /\ UNCHANGED <<store, feedbacks>>

(***************************************************************************)
(* SignUpVerify.get                                                        *)
(***************************************************************************)
\* User.objects.get(last_name=code)
UsersWithCode(code) == {u \in UserIds : users[u].last_name = code}

\* The verification with the assignment to is_active left out.
VerifiedUserNotSet(user) == user

\* What SignUpVerify does to a user it found.
VerifiedUser(user) == [user EXCEPT !.is_active = TRUE]

SignUpVerify(code) ==
    /\ req' = [op |-> "signup-verify", code |-> code]
    /\ IF code.len # CODE_LENGTH
       THEN /\ resp' = Response("VALIDATION", 400)
            /\ UNCHANGED users
       ELSE IF UsersWithCode(code) = {}
       THEN /\ resp' = Response("AV_CODE_NOT_VALID", 404)
            /\ UNCHANGED users
       ELSE IF Cardinality(UsersWithCode(code)) > 1
       THEN /\ resp' = ServerError
            /\ UNCHANGED users
       ELSE LET u == CHOOSE v \in UsersWithCode(code) : TRUE
            IN  IF users[u].is_active
                THEN /\ resp' = Response("VERIFIED_ALREADY", 200)
                     /\ UNCHANGED users
                ELSE /\ resp' = Response("VERIFIED", 200)
                     /\ users' = [users EXCEPT ![u] = VerifiedUser(users[u])]
    /\ UNCHANGED <<store, signups, feedbacks>>

\* The codes a client can present: a malformed one, a well-formed one that
\* belongs to nobody, and the code of any user whose SignUp has got as far
\* as mailing it.
PresentableCodes ==
    {[len |-> 0, key |-> 0], [len |-> CODE_LENGTH - 1, key |-> 1],
     [len |-> CODE_LENGTH, key |-> 0]}
    \cup {users[u].last_name : u \in UserIds \ HalfSignedUp}

(***************************************************************************)
(* Queries on decks, cards and stats.                                      *)
(***************************************************************************)
\* Deck.objects.filter(owner=user)
DecksOf(user) == {d \in DOMAIN decks : decks[d].owner = user}

\* Deck.objects.filter(owner=user, name=deckname)
DecksNamed(user, deckname) == {d \in DecksOf(user) : decks[d].name = deckname}

\* Card.objects.filter(deck=deck)
CardsOf(deck) == {c \in DOMAIN cards : cards[c].deck = deck}

\* Stat.objects.filter(owner=user, card=card)
StatsOf(user, card) ==
    {s \in DOMAIN stats : stats[s].owner = user /\ stats[s].card = card}

\* QuerySet.earliest() on a set of stats that is not empty: the stat with
\* the least datetime.
Earliest(ss) == CHOOSE s \in ss : \A t \in ss : stats[s].datetime <= stats[t].datetime

(***************************************************************************)
(* PostFeedback.post.  The request data is                                 *)
(* [typed, deck_owner_username, deckname, card_id, feedback]; typed says   *)
(* that the four values have the types step 1 asks for.                    *)
(***************************************************************************)
\* The retention check with the comparison off by one.
StatLimitExceededOffByOne(user_card_stat_num) ==
    user_card_stat_num >= USER_CARD_STAT_LIMIT

\* user_card_stat_num > USER_CARD_STAT_LIMIT
StatLimitExceeded(user_card_stat_num) ==
    user_card_stat_num > USER_CARD_STAT_LIMIT

\* Step 6 of PostFeedback.post with the test left out: no deck is kept from
\* anyone.
FeedbackHiddenFromNobody(deck, deck_owner_username, jwt_username) == FALSE

\* Step 6 of PostFeedback.post: whether the deck is kept from the caller.
FeedbackHidden(deck, deck_owner_username, jwt_username) ==
    jwt_username # deck_owner_username /\ ~decks[deck].public

\* The response of steps 1 to 7 when one of them ends the request, and
\* NoResponse when the request gets to step 8.  Step 7 catches
\* Deck.DoesNotExist where Card.objects.get raises Card.DoesNotExist.
FeedbackRefusal(caller, data) ==
    IF ~data.typed THEN Response("VALIDATION", 400)
    ELSE IF JwtUsername(caller) = 0 THEN Response("AUTH_REQUIRED", 401)
    ELSE IF ~JwtIsActive(caller) THEN Response("VERIFICATION_REQUIRED", 401)
    ELSE IF UsersNamed(data.deck_owner_username) = {}
    THEN Response("USER_NOT_FOUND", 404)
    ELSE LET user == CHOOSE u \in UsersNamed(data.deck_owner_username) : TRUE
             found == DecksNamed(user, data.deckname)
         IN  IF found = {} THEN Response("DECK_NOT_FOUND", 404)
             ELSE IF Cardinality(found) > 1 THEN ServerError
             ELSE LET deck == CHOOSE d \in found : TRUE
                  IN  IF FeedbackHidden(deck, data.deck_owner_username,
                                        JwtUsername(caller))
                      THEN Response("DECK_NOT_FOUND", 404)
                      ELSE IF data.card_id \notin CardsOf(deck) THEN ServerError
                      ELSE NoResponse

\* stat.save() ahead of the checks of steps 1 to 7.
PostFeedbackSaveUnchecked(w, caller, data) ==
    /\ feedbacks[w].pc = "idle"
    /\ req' = [op |-> "post-feedback", step |-> "save", worker |-> w,
               caller |-> caller, data |-> data]
    /\ statSeq' = statSeq + 1
    /\ stats' = stats @@ (statSeq + 1 :>
           [datetime |-> statSeq + 1, feedback |-> data.feedback,
            owner |-> caller, card |-> data.card_id])
    /\ resp' = FeedbackRefusal(caller, data)
    /\ feedbacks' = IF FeedbackRefusal(caller, data) # NoResponse THEN feedbacks
                    ELSE [feedbacks EXCEPT ![w] =
                             [pc |-> "count", owner |-> caller,
                              card |-> data.card_id, stat |-> 0]]
    /\ UNCHANGED <<users, decks, descriptions, cards, deckSeq, cardSeq, signups>>

\* Steps 1 to 7, and stat.save() of step 8.
PostFeedbackSave(w, caller, data) ==
    /\ feedbacks[w].pc = "idle"
    /\ req' = [op |-> "post-feedback", step |-> "save", worker |-> w,
               caller |-> caller, data |-> data]
    /\ LET refusal == FeedbackRefusal(caller, data)
       IN  IF refusal # NoResponse
           THEN /\ resp' = refusal
                /\ UNCHANGED <<stats, statSeq, feedbacks>>
           ELSE /\ resp' = NoResponse
                /\ statSeq' = statSeq + 1
                /\ stats' = stats @@ (statSeq + 1 :>
                       [datetime |-> statSeq + 1, feedback |-> data.feedback,
                        owner |-> caller, card |-> data.card_id])
                /\ feedbacks' = [feedbacks EXCEPT ![w] =
                       [pc |-> "count", owner |-> caller, card |-> data.card_id,
                        stat |-> 0]]
    /\ UNCHANGED <<users, decks, descriptions, cards, deckSeq, cardSeq, signups>>

\* Stat.objects.filter(owner=jwt_user, card=card).count() and the comparison.
PostFeedbackCount(w) ==
    /\ feedbacks[w].pc = "count"
    /\ req' = [op |-> "post-feedback", step |-> "count", worker |-> w]
    /\ IF StatLimitExceeded(Cardinality(StatsOf(feedbacks[w].owner, feedbacks[w].card)))
       THEN /\ resp' = NoResponse
            /\ feedbacks' = [feedbacks EXCEPT ![w].pc = "earliest"]
       ELSE /\ resp' = Response("OKAY", 200)
            /\ feedbacks' = [feedbacks EXCEPT ![w] = IdleFeedback]
    /\ UNCHANGED <<users, store, signups>>

\* Stat.objects.filter(owner=jwt_user, card=card).earliest(); it raises
\* Stat.DoesNotExist when nothing is left.
PostFeedbackEarliest(w) ==
    /\ feedbacks[w].pc = "earliest"
    /\ req' = [op |-> "post-feedback", step |-> "earliest", worker |-> w]
    /\ LET ss == StatsOf(feedbacks[w].owner, feedbacks[w].card)
       IN  IF ss = {}
           THEN /\ resp' = ServerError
                /\ feedbacks' = [feedbacks EXCEPT ![w] = IdleFeedback]
           ELSE /\ resp' = NoResponse
                /\ feedbacks' = [feedbacks EXCEPT ![w].pc = "delete",
                                                  ![w].stat = Earliest(ss)]
    /\ UNCHANGED <<users, store, signups>>

\* stat.delete(), which deletes nothing when the row is gone, and the
\* response.
PostFeedbackDelete(w) ==
    /\ feedbacks[w].pc = "delete"
    /\ req' = [op |-> "post-feedback", step |-> "delete", worker |-> w]
    /\ stats' = Without(stats, {feedbacks[w].stat})
    /\ resp' = Response("OKAY", 200)
    /\ feedbacks' = [feedbacks EXCEPT ![w] = IdleFeedback]
    /\ UNCHANGED <<users, decks, descriptions, cards, deckSeq, cardSeq, statSeq,
                   signups>>

(***************************************************************************)
(* GetDecks.get and GetDeckInfo.get.  They write nothing: each is the      *)
(* response as a function of the store and the request, with the decks it  *)
(* serializes.                                                             *)
(***************************************************************************)
\* GetDecks step 3 with the owner's test left out.
VisibleDecksPublicOnly(user, username, jwt_username) ==
    {d \in DecksOf(user) : decks[d].public}

\* Step 3 of GetDecks.get: the decks it lists.
VisibleDecks(user, username, jwt_username) ==
    IF ~JWT_AUTH \/ username = jwt_username
    THEN DecksOf(user)
    ELSE {d \in DecksOf(user) : decks[d].public}

GetDecksResponse(caller, username) ==
    IF username = 0
    THEN [code |-> "VALIDATION", status |-> 400, decks |-> {}]
    ELSE IF UsersNamed(username) = {}
    THEN [code |-> "USER_NOT_FOUND", status |-> 404, decks |-> {}]
    ELSE LET user == CHOOSE u \in UsersNamed(username) : TRUE
         IN  [code |-> "OKAY", status |-> 200,
              decks |-> VisibleDecks(user, username, JwtUsername(caller))]

GetDecks(caller, username) ==
    /\ req' = [op |-> "get-decks"]
    /\ resp' = LET r == GetDecksResponse(caller, username)
               IN  Response(r.code, r.status)
    /\ UNCHANGED <<users, store, signups, feedbacks>>

\* Steps 4 and 5 of GetDeckInfo.get with the tests left out: no deck is kept
\* from anyone.
DeckInfoHiddenFromNobody(deck, username, jwt_username) == FALSE

\* Steps 4 and 5 of GetDeckInfo.get: whether the deck is kept from the caller.
DeckInfoHidden(deck, username, jwt_username) ==
    JWT_AUTH /\ ~decks[deck].public /\ username # jwt_username

\* DeckInfoSerializer(deck).data
DeckInfo(deck) ==
    [id |-> deck, name |-> decks[deck].name, color |-> decks[deck].color,
     public |-> decks[deck].public, owner |-> decks[deck].owner,
     card_number |-> Cardinality(CardsOf(deck))]

NoDeckInfo == [id |-> 0]

GetDeckInfoResponse(caller, username, deckname) ==
    IF username = 0 \/ deckname = ""
    THEN [code |-> "VALIDATION", status |-> 400, deckinfo |-> NoDeckInfo]
    ELSE IF UsersNamed(username) = {}
    THEN [code |-> "USER_NOT_FOUND", status |-> 404, deckinfo |-> NoDeckInfo]
    ELSE LET user == CHOOSE u \in UsersNamed(username) : TRUE
             found == DecksNamed(user, deckname)
         IN  IF found = {}
             THEN [code |-> "DECK_NOT_FOUND", status |-> 404, deckinfo |-> NoDeckInfo]
             ELSE IF Cardinality(found) > 1
             THEN [code |-> "EXCEPTION", status |-> 500, deckinfo |-> NoDeckInfo]
             ELSE LET deck == CHOOSE d \in found : TRUE
                  IN  IF DeckInfoHidden(deck, username, JwtUsername(caller))
                      THEN [code |-> "DECK_NOT_FOUND", status |-> 404,
                            deckinfo |-> NoDeckInfo]
                      ELSE [code |-> "OKAY", status |-> 200,
                            deckinfo |-> DeckInfo(deck)]

GetDeckInfo(caller, username, deckname) ==
    /\ req' = [op |-> "get-deck-info"]
    /\ resp' = LET r == GetDeckInfoResponse(caller, username, deckname)
               IN  Response(r.code, r.status)
    /\ UNCHANGED <<users, store, signups, feedbacks>>

(***************************************************************************)
(* GetDeckStats.get, GetDeckStuff.get and PullNextCard.get.  They write    *)
(* nothing either.                                                         *)
(***************************************************************************)
\* Stat.objects.all().filter(owner=jwt_user)
StatsOwnedBy(user) == {s \in DOMAIN stats : stats[s].owner = user}

NoStats == {}

GetDeckStatsResponse(caller, username, deckname) ==
    IF username = 0 \/ deckname = ""
    THEN [code |-> "VALIDATION", status |-> 400, stats |-> NoStats]
    ELSE IF JwtUsername(caller) = 0
    THEN [code |-> "AUTH_REQUIRED", status |-> 401, stats |-> NoStats]
    ELSE IF UsersNamed(username) = {}
    THEN [code |-> "USER_NOT_FOUND", status |-> 404, stats |-> NoStats]
    ELSE LET user == CHOOSE u \in UsersNamed(username) : TRUE
             found == DecksNamed(user, deckname)
         IN  IF found = {}
             THEN [code |-> "DECK_NOT_FOUND", status |-> 404, stats |-> NoStats]
             ELSE IF Cardinality(found) > 1
             THEN [code |-> "EXCEPTION", status |-> 500, stats |-> NoStats]
             ELSE LET deck == CHOOSE d \in found : TRUE
                  IN  IF decks[deck].public \/ username = JwtUsername(caller)
                      THEN [code |-> "OKAY", status |-> 200,
                            stats |-> StatsOwnedBy(caller)]
                      ELSE [code |-> "DECK_NOT_FOUND", status |-> 404,
                            stats |-> NoStats]

GetDeckStats(caller, username, deckname) ==
    /\ req' = [op |-> "get-deck-stats"]
    /\ resp' = LET r == GetDeckStatsResponse(caller, username, deckname)
               IN  Response(r.code, r.status)
    /\ UNCHANGED <<users, store, signups, feedbacks>>

NoCardsSent == {}

GetDeckStuffResponse(caller, username, deckname) ==
    IF username = 0 \/ deckname = ""
    THEN [code |-> "VALIDATION", status |-> 400, deck |-> NoDeckInfo,
          cards |-> NoCardsSent]
    ELSE IF JwtUsername(caller) = 0
    THEN [code |-> "AUTH_REQUIRED", status |-> 401, deck |-> NoDeckInfo,
          cards |-> NoCardsSent]
    ELSE IF username # JwtUsername(caller)
    THEN [code |-> "ACCESS_DENIED", status |-> 401, deck |-> NoDeckInfo,
          cards |-> NoCardsSent]
    ELSE LET found == DecksNamed(caller, deckname)
         IN  IF found = {}
             THEN [code |-> "DECK_NOT_FOUND", status |-> 404, deck |-> NoDeckInfo,
                   cards |-> NoCardsSent]
             ELSE IF Cardinality(found) > 1
             THEN [code |-> "EXCEPTION", status |-> 500, deck |-> NoDeckInfo,
                   cards |-> NoCardsSent]
             ELSE LET deck == CHOOSE d \in found : TRUE
                  IN  [code |-> "OKAY", status |-> 200, deck |-> DeckInfo(deck),
                       cards |-> CardsOf(deck)]

GetDeckStuff(caller, username, deckname) ==
    /\ req' = [op |-> "get-deck-stuff"]
    /\ resp' = LET r == GetDeckStuffResponse(caller, username, deckname)
               IN  Response(r.code, r.status)
    /\ UNCHANGED <<users, store, signups, feedbacks>>

\* A response of PullNextCard.get: card is 0 when no card is sent.
CardResponse(code, status, card) == [code |-> code, status |-> status, card |-> card]

\* Step 5 of PullNextCard.get with the test left out: no deck is kept from
\* anyone.
PullHiddenFromNobody(deck, username, jwt_username) == FALSE

\* Step 5 of PullNextCard.get: whether the deck is kept from the caller.
PullHidden(deck, username, jwt_username) ==
    jwt_username # username /\ ~decks[deck].public

\* Step 6 with a selector that always takes the first card of the list.
PullChoicesFirstOnly(deck) ==
    {c \in CardsOf(deck) : \A d \in CardsOf(deck) : c <= d}

\* Step 6: random.choice(cards) may return any card of the list.
PullChoices(deck) == CardsOf(deck)

\* The responses PullNextCard.get may give: one, or one for each card that
\* random.choice may return.
PullNextCardResponses(caller, username, deckname) ==
    IF username = 0 \/ deckname = ""
    THEN {CardResponse("VALIDATION", 401, 0)}
    ELSE IF JwtUsername(caller) = 0
    THEN {CardResponse("AUTH_REQUIRED", 401, 0)}
    ELSE IF UsersNamed(username) = {}
    THEN {CardResponse("USER_NOT_FOUND", 404, 0)}
    ELSE LET user == CHOOSE u \in UsersNamed(username) : TRUE
             found == DecksNamed(user, deckname)
         IN  IF found = {}
             THEN {CardResponse("DECK_NOT_FOUND", 404, 0)}
             ELSE IF Cardinality(found) > 1
             THEN {CardResponse("EXCEPTION", 500, 0)}
             ELSE LET deck == CHOOSE d \in found : TRUE
                  IN  IF PullHidden(deck, username, JwtUsername(caller))
                      THEN {CardResponse("DECK_NOT_FOUND", 404, 0)}
                      ELSE IF CardsOf(deck) = {}
                      THEN {CardResponse("NO_CARDS_IN_DECK", 200, 0)}
                      ELSE {CardResponse("OKAY", 200, c) : c \in PullChoices(deck)}

PullNextCard(caller, username, deckname) ==
    /\ req' = [op |-> "pull-next-card", caller |-> caller,
               username |-> username, deckname |-> deckname]
    /\ resp' \in PullNextCardResponses(caller, username, deckname)
    /\ UNCHANGED <<users, store, signups, feedbacks>>

(***************************************************************************)
(* The checks update-deck-stuff, remove-deck and create-deck start with.   *)
(***************************************************************************)
\* The checks with the test of is_active left out.
WriteRefusalNoActiveCheck(caller, username, enforced) ==
    IF enforced /\ JwtUsername(caller) = 0 THEN Response("AUTH_REQUIRED", 401)
    ELSE IF enforced /\ username # JwtUsername(caller)
    THEN Response("ACCESS_DENIED", 401)
    ELSE NoResponse

\* Steps 2 and 3 of the three handlers: enforced is TRUE in UpdateDeckStuff
\* and JWT_AUTH in RemoveDeck and CreateDeck.
WriteRefusal(caller, username, enforced) ==
    IF enforced /\ JwtUsername(caller) = 0 THEN Response("AUTH_REQUIRED", 401)
    ELSE IF enforced /\ username # JwtUsername(caller)
    THEN Response("ACCESS_DENIED", 401)
    ELSE IF ~JwtIsActive(caller) THEN Response("VERIFICATION_REQUIRED", 401)
    ELSE NoResponse

\* The cap with the comparison off by one.
DeckLimitReachedOffByOne(deck_number) == deck_number > USER_DECK_LIMIT

\* deck_number >= USER_DECK_LIMIT in UpdateDeckStuff.post and CreateDeck.post
DeckLimitReached(deck_number) == deck_number >= USER_DECK_LIMIT

\* The unique (owner, name) of a deck: what makes deck.save() raise
\* IntegrityError.  self is the deck being saved, 0 for a new one.
DeckNameTaken(owner, name, self) ==
    \E d \in DecksOf(owner) \ {self} : decks[d].name = name

\* Cards deleted without their stats.
StatsOnNothing(cs) == {}

\* on_delete=CASCADE from Card to Stat: the stats that go with the cards cs.
StatsOn(cs) == {s \in DOMAIN stats : stats[s].card \in cs}

(***************************************************************************)
(* validate_and_normalize_deck_stuff.  The data is [typed, deck, cards]    *)
(* with deck = [id, name, color, public, description] and cards a sequence *)
(* of [id, question, answer]; typed says that the keys are there and the   *)
(* values have the types step 1 asks for.  The first comparison is the     *)
(* chained 1 > len(name) > 16.                                             *)
(***************************************************************************)
\* The card number check letting one card more through.
TooManyCardsOffByOne(request_cards) == Len(request_cards) > DECK_CARD_LIMIT + 1

\* len(cards) > 100
TooManyCards(request_cards) == Len(request_cards) > DECK_CARD_LIMIT

DeckStuffValid(data) ==
    /\ data.typed
    /\ ~(\/ (1 > Len(data.deck.name) /\ Len(data.deck.name) > 16)
         \/ Len(data.deck.color) # 7
         \/ Len(data.deck.description) > 2500)
    /\ ~TooManyCards(data.cards)
    /\ \A i \in 1..Len(data.cards) :
          ~(Len(data.cards[i].question) > 200 \/ Len(data.cards[i].answer) > 200)

(***************************************************************************)
(* UpdateDeckStuff.post                                                    *)
(***************************************************************************)
\* One card of the request: it updates the card with its id, in whatever
\* deck that card is, or else creates a card in the deck.
SaveCard(card, deck, table, seq) ==
    IF card.id \in DOMAIN table
    THEN [cards |-> [table EXCEPT ![card.id].question = card.question,
                                  ![card.id].answer = card.answer],
          cardSeq |-> seq]
    ELSE [cards |-> table @@ (seq + 1 :>
                        [question |-> card.question, answer |-> card.answer,
                         deck |-> deck]),
          cardSeq |-> seq + 1]

\* Part B of step 5: the cards of the request in their order, the first
\* half of the list and then the second on what the first has left: the
\* table, and the last card key, which is the old one when the first half
\* made no card.  The result is the card table and the last card key.
RECURSIVE SaveCards(_, _, _, _)
SaveCards(request_cards, deck, table, seq) ==
    IF request_cards = <<>>
    THEN [cards |-> table, cardSeq |-> seq]
    ELSE IF Len(request_cards) = 1
    THEN SaveCard(request_cards[1], deck, table, seq)
    ELSE LET half == Len(request_cards) \div 2
             first == SaveCards(SubSeq(request_cards, 1, half), deck, table, seq)
             second == SubSeq(request_cards, half + 1, Len(request_cards))
         IN  IF first.cardSeq = seq
             THEN SaveCards(second, deck, first.cards, seq)
             ELSE SaveCards(second, deck, first.cards, first.cardSeq)

\* Part A of step 5: the cards of the deck whose ids are not in the request.
CardsToRemove(deck, request_cards_ids) ==
    {c \in CardsOf(deck) : c \notin request_cards_ids}

Unread == [typed |-> FALSE]

UpdateDeckStuff(caller, username, data) ==
    LET refusal == WriteRefusal(caller, username, TRUE)
        user == caller
        deckinfo == data.deck
        exists == deckinfo.id \in DecksOf(user)
        deck == IF exists THEN deckinfo.id ELSE deckSeq + 1
        request_cards_ids == {data.cards[i].id : i \in 1..Len(data.cards)}
        removed == IF exists THEN CardsToRemove(deck, request_cards_ids) ELSE {}
        saved == SaveCards(data.cards, deck, Without(cards, removed), cardSeq)
    IN  IF username = 0 \/ refusal # NoResponse
        THEN /\ req' = [op |-> "update-deck-stuff", caller |-> caller,
                        username |-> username, data |-> Unread]
             /\ resp' = IF username = 0 THEN Response("VALIDATION", 400)
                        ELSE refusal
             /\ UNCHANGED <<users, store, signups, feedbacks>>
        ELSE /\ req' = [op |-> "update-deck-stuff", caller |-> caller,
                        username |-> username, data |-> data]
             /\ IF ~DeckStuffValid(data)
                THEN /\ resp' = Response("VALIDATION", 400)
                     /\ UNCHANGED store
                ELSE IF ~exists /\ DeckLimitReached(Cardinality(DecksOf(user)))
                THEN /\ resp' = Response("TOO_MUCH_DATA", 400)
                     /\ UNCHANGED store
                ELSE IF DeckNameTaken(user, deckinfo.name, IF exists THEN deck ELSE 0)
                THEN /\ resp' = ServerError
                     /\ UNCHANGED store
                ELSE /\ decks' = [d \in DOMAIN decks \cup {deck} |->
                            IF d = deck
                            THEN [name |-> deckinfo.name, color |-> deckinfo.color,
                                  public |-> deckinfo.public, owner |-> user]
                            ELSE decks[d]]
                     /\ deckSeq' = IF exists THEN deckSeq ELSE deckSeq + 1
                     /\ descriptions' =
                            [d \in DOMAIN descriptions \cup {deck} |->
                                IF d = deck THEN deckinfo.description
                                ELSE descriptions[d]]
                     /\ cards' = saved.cards
                     /\ cardSeq' = saved.cardSeq
                     /\ stats' = Without(stats, StatsOn(removed))
                     /\ statSeq' = statSeq
                     /\ resp' = Response("OKAY", 200)
             /\ UNCHANGED <<users, signups, feedbacks>>

(***************************************************************************)
(* RemoveDeck.post                                                         *)
(***************************************************************************)
RemoveDeck(caller, username, deckname) ==
    LET refusal == WriteRefusal(caller, username, JWT_AUTH)
        found == IF UsersNamed(username) = {} THEN {}
                 ELSE DecksNamed(CHOOSE u \in UsersNamed(username) : TRUE, deckname)
    IN  /\ req' = [op |-> "remove-deck", caller |-> caller,
                   username |-> username, deckname |-> deckname]
        /\ IF username = 0 \/ deckname = ""
           THEN resp' = Response("VALIDATION", 400) /\ UNCHANGED store
           ELSE IF refusal # NoResponse
           THEN resp' = refusal /\ UNCHANGED store
           ELSE IF UsersNamed(username) = {}
           THEN resp' = Response("USER_NOT_FOUND", 404) /\ UNCHANGED store
           ELSE IF found = {}
           THEN resp' = Response("DECK_NOT_FOUND", 404) /\ UNCHANGED store
           ELSE IF Cardinality(found) > 1
           THEN resp' = ServerError /\ UNCHANGED store
           ELSE /\ decks' = Without(decks, found)
                /\ descriptions' = Without(descriptions, found)
                /\ cards' = Without(cards, UNION {CardsOf(d) : d \in found})
                /\ stats' = Without(stats, StatsOn(UNION {CardsOf(d) : d \in found}))
                /\ UNCHANGED <<deckSeq, cardSeq, statSeq>>
                /\ resp' = Response("OKAY", 200)
        /\ UNCHANGED <<users, signups, feedbacks>>

(***************************************************************************)
(* CreateDeck.post                                                         *)
(***************************************************************************)
\* The indices the while loop of step 5 tries: 1 .. USER_DECK_LIMIT - 1.
NewDeckIndices == 1..(USER_DECK_LIMIT - 1)

\* The name CreateDeck.post gives the deck it tries at index.
NewDeckName(index) == "New Deck " \o ToString(index)

\* The deck, the description and the card CreateDeck.post makes.
NewDeck(index, owner) ==
    [name |-> NewDeckName(index), color |-> "#6a6a6a", public |-> FALSE,
     owner |-> owner]

NewDeckDescription == "No description yet."

SampleCard(deck) ==
    [question |-> "Is this deck empty?", answer |-> "It is :)", deck |-> deck]

\* The loop of step 5 taking its first index whatever deck.save() says.
FirstFreeNeverSearched(free) == 1

\* The index the loop of step 5 stops at: the first whose deck.save() does
\* not raise IntegrityError.
FirstFree(free) == CHOOSE i \in free : \A j \in free : i <= j

CreateDeck(caller, username) ==
    LET refusal == WriteRefusal(caller, username, JWT_AUTH)
        user == CHOOSE u \in UsersNamed(username) : TRUE
        free == {i \in NewDeckIndices : ~DeckNameTaken(user, NewDeckName(i), 0)}
        index == FirstFree(free)
        deck == deckSeq + 1
    IN  /\ req' = [op |-> "create-deck", caller |-> caller, username |-> username]
        /\ IF username = 0
           THEN resp' = Response("VALIDATION", 400) /\ UNCHANGED store
           ELSE IF refusal # NoResponse
           THEN resp' = refusal /\ UNCHANGED store
           ELSE IF UsersNamed(username) = {}
           THEN resp' = Response("USER_NOT_FOUND", 404) /\ UNCHANGED store
           ELSE IF DeckLimitReached(Cardinality(DecksOf(user)))
           THEN resp' = Response("TOO_MUCH_DATA", 400) /\ UNCHANGED store
           ELSE IF free = {}
           THEN resp' = Response("DEV_MESSED_UP", 500) /\ UNCHANGED store
           ELSE /\ decks' = decks @@ (deck :> NewDeck(index, user))
                /\ deckSeq' = deck
                /\ descriptions' = descriptions @@ (deck :> NewDeckDescription)
                /\ cards' = cards @@ (cardSeq + 1 :> SampleCard(deck))
                /\ cardSeq' = cardSeq + 1
                /\ UNCHANGED <<stats, statSeq>>
                /\ resp' = Response("OKAY", 200)
        /\ UNCHANGED <<users, signups, feedbacks>>

(***************************************************************************)
(* The initial stores.                                                     *)
(***************************************************************************)
NoRequest == [op |-> "none"]

EmptyStore ==
    /\ decks = EmptyTable
    /\ descriptions = EmptyTable
    /\ cards = EmptyTable
    /\ stats = EmptyTable
    /\ deckSeq = 0
    /\ cardSeq = 0
    /\ statSeq = 0

NothingInFlight ==
    /\ signups = [w \in Workers |-> IdleSignup]
    /\ feedbacks = [w \in Workers |-> IdleFeedback]
    /\ req = NoRequest
    /\ resp = NoResponse

\* A user whose SignUp has completed and who has not verified.
PendingUser(u) ==
    [username |-> u, email |-> u, is_active |-> FALSE, last_name |-> EmailCode(u)]

\* SignUp requests that have not answered yet.
SignupsInFlight == Cardinality({w \in Workers : signups[w].pc # "idle"})

\* The users that exist or that the requests in flight may still create.
UsersInSight ==
    Len(users) + Cardinality({w \in Workers : signups[w].pc \in {"email", "create"}})

\* A valid form with the given username and e-mail address.
ValidForm(username, email) ==
    [typed |-> TRUE, username |-> username, email |-> email, password_ok |-> TRUE]

\* One form for each way validate_and_normalize_signup_form rejects.
InvalidForms ==
    {[ValidForm(1, 1) EXCEPT !.typed = FALSE],
     [ValidForm(1, 1) EXCEPT !.username = 0],
     [ValidForm(1, 1) EXCEPT !.email = 0],
     [ValidForm(1, 1) EXCEPT !.password_ok = FALSE]}

(***************************************************************************)
(* SpecAccounts: signup and verification from an empty user table, with    *)
(* requests interleaved.                                                   *)
(***************************************************************************)
AccountNames == 1..MaxUsers

AccountForms ==
    {ValidForm(n, e) : n \in AccountNames, e \in AccountNames} \cup InvalidForms

InitAccounts ==
    /\ users = <<>>
    /\ EmptyStore
    /\ NothingInFlight

NextAccounts ==
    \/ \E w \in Workers, data \in AccountForms :
          /\ UsersInSight < MaxUsers
          /\ SignUpCheckQueue(w, data)
    \/ \E w \in Workers : SignUpCheckEmail(w)
    \/ \E w \in Workers : SignUpCreateUser(w)
    \/ \E w \in Workers, sent \in BOOLEAN : SignUpDeactivate(w, sent)
    \/ \E code \in PresentableCodes : SignUpVerify(code)

SpecAccounts == InitAccounts /\ [][NextAccounts]_vars

(***************************************************************************)
(* SpecQueue: signups near the queue limit.  The store starts with         *)
(* QUEUE_LIMIT - 2 completed, unverified signups; each new form carries    *)
(* the first username (and address) not used yet; only the first two       *)
(* users' codes are presented.  SpecQueueSeq handles one request at a      *)
(* time.                                                                   *)
(***************************************************************************)
StartPending == QUEUE_LIMIT - 2

\* The first name no user and no request in flight has.
FreshName ==
    LET used == {users[u].username : u \in UserIds}
                    \cup {signups[w].username : w \in Workers}
    IN  CHOOSE n \in 1..(Cardinality(used) + 1) :
            /\ n \notin used
            /\ \A m \in 1..(n - 1) : m \in used

QueueCodes == {EmailCode(1), EmailCode(2), [len |-> CODE_LENGTH, key |-> 0]}

InitQueue ==
    /\ users = [u \in 1..StartPending |-> PendingUser(u)]
    /\ EmptyStore
    /\ NothingInFlight

QueueNext(ws) ==
    \/ \E w \in ws, data \in {ValidForm(FreshName, FreshName)} \cup InvalidForms :
          /\ UsersInSight < QUEUE_LIMIT + QueueSlack
          /\ SignUpCheckQueue(w, data)
    \/ \E w \in ws : SignUpCheckEmail(w)
    \/ \E w \in ws : SignUpCreateUser(w)
    \/ \E w \in ws, sent \in BOOLEAN : SignUpDeactivate(w, sent)
    \/ \E code \in QueueCodes \cap PresentableCodes :
          /\ (ws # Workers => Quiet)
          /\ SignUpVerify(code)

NextQueue == QueueNext(Workers)

SpecQueue == InitQueue /\ [][NextQueue]_vars

NextQueueSeq == QueueNext({1})

SpecQueueSeq == InitQueue /\ [][NextQueueSeq]_vars

(***************************************************************************)
(* Properties of the account lifecycle.                                    *)
(***************************************************************************)
\* The worker whose step req' describes.
StepOf(op, step) == req'.op = op /\ req'.step = step

\* C5: with requests handled one at a time, a signup made while exactly
\* QUEUE_LIMIT (20) users are inactive answers QUEUE and creates no user; a
\* valid signup that conflicts with no user and was made while 19 were
\* inactive goes through its steps without an error, inserts one user and
\* leaves that user inactive, so that 20 are inactive.
C5_QueueRefusesAtLimit ==
    [][/\ (StepOf("signup", "queue") /\ NonActiveUsersNum = QUEUE_LIMIT)
            => /\ resp' = Response("QUEUE", 409)
               /\ users' = users
               /\ signups' = signups
       /\ (/\ StepOf("signup", "queue")
           /\ NonActiveUsersNum = QUEUE_LIMIT - 1
           /\ SignupFormValid(req'.data))
            => /\ resp' = NoResponse
               /\ signups'[req'.worker].pc = "email"
       /\ \A w \in Workers :
            (signups[w].pc # "idle"
             /\ signups[w].non_active_users_num = QUEUE_LIMIT - 1
             /\ req'.op = "signup" /\ req'.worker = w)
            => /\ (req'.step = "email"
                   /\ ~\E u \in UserIds : users[u].email = signups[w].email)
                    => signups'[w].pc = "create" /\ users' = users
               /\ (req'.step = "create" /\ UsersNamed(signups[w].username) = {})
                    => /\ Len(users') = Len(users) + 1
                       /\ signups'[w].pc = "deactivate"
               /\ req'.step = "deactivate"
                    => /\ resp'.code \in {"OKAY", "MAIL_NOT_SENT"}
                       /\ Len(users') = Len(users)
                       /\ ~users'[signups[w].new_user].is_active
                       /\ NonActiveUsersNum' = QUEUE_LIMIT
      ]_vars

\* A signup was refused while exactly QUEUE_LIMIT users were inactive.
C5_Witness ==
    /\ req.op = "signup"
    /\ resp.code = "QUEUE"
    /\ NonActiveUsersNum = QUEUE_LIMIT
    /\ Len(users) > StartPending

\* C6: in every reachable state, with signups interleaved, at most
\* QUEUE_LIMIT (20) users are inactive.
C6_PendingWithinLimit == NonActiveUsersNum <= QUEUE_LIMIT

\* C7: signup-verify with the code of a user who is not active makes that
\* user (and nothing else) active and answers VERIFIED; with the code of an
\* active user it answers VERIFIED_ALREADY and changes no user; and a user
\* whose signup is complete, once active, stays active, so that every later
\* verification answers VERIFIED_ALREADY.
C7_VerifyOnceThenAlready ==
    [][/\ (req'.op = "signup-verify" /\ UsersWithCode(req'.code) # {})
            => LET u == CHOOSE v \in UsersWithCode(req'.code) : TRUE
               IN  IF users[u].is_active
                   THEN /\ resp' = Response("VERIFIED_ALREADY", 200)
                        /\ users' = users
                   ELSE /\ resp' = Response("VERIFIED", 200)
                        /\ users' = [users EXCEPT ![u].is_active = TRUE]
       /\ \A u \in UserIds \ HalfSignedUp :
            users[u].is_active => users'[u].is_active
      ]_vars

\* The code of a user who was verified before has been presented again.
C7_Witness ==
    /\ req.op = "signup-verify"
    /\ resp.code = "VERIFIED_ALREADY"
    /\ \E u \in UserIds \ HalfSignedUp :
          users[u].last_name = req.code /\ users[u].is_active

\* C8: no step sets is_active of a user back from true to false (so that it
\* changes from false to true at most once).
C8_ActiveNeverReverts ==
    [][\A u \in UserIds : users[u].is_active => users'[u].is_active]_vars

(***************************************************************************)
(* SpecStats: one verified user posts feedback on the sample card of the   *)
(* deck that create-deck gave them, starting with no stat.  SpecStatsSeq   *)
(* handles one request at a time.                                          *)
(***************************************************************************)
VerifiedUserRow(u) == [PendingUser(u) EXCEPT !.is_active = TRUE]

Feedback(owner, deckname, card_id, feedback) ==
    [typed |-> TRUE, deck_owner_username |-> owner, deckname |-> deckname,
     card_id |-> card_id, feedback |-> feedback]

InitStats ==
    /\ users = <<VerifiedUserRow(1)>>
    /\ decks = (1 :> NewDeck(1, 1))
    /\ descriptions = (1 :> NewDeckDescription)
    /\ cards = (1 :> SampleCard(1))
    /\ stats = EmptyTable
    /\ deckSeq = 1
    /\ cardSeq = 1
    /\ statSeq = 0
    /\ NothingInFlight

\* The feedback on the sample card, and one request for each refusal that
\* a single user with a single deck can get.
StatsRequests ==
    {<<1, Feedback(1, "New Deck 1", 1, TRUE)>>,
     <<1, [Feedback(1, "New Deck 1", 1, TRUE) EXCEPT !.typed = FALSE]>>,
     <<0, Feedback(1, "New Deck 1", 1, TRUE)>>,
     <<1, Feedback(2, "New Deck 1", 1, TRUE)>>,
     <<1, Feedback(1, "New Deck 2", 1, TRUE)>>,
     <<1, Feedback(1, "New Deck 1", 2, TRUE)>>}

StatsNext(ws) ==
    \/ \E w \in ws, r \in StatsRequests :
          /\ statSeq < USER_CARD_STAT_LIMIT + StatSlack
          /\ PostFeedbackSave(w, r[1], r[2])
    \/ \E w \in ws : PostFeedbackCount(w)
    \/ \E w \in ws : PostFeedbackEarliest(w)
    \/ \E w \in ws : PostFeedbackDelete(w)

NextStats == StatsNext(Workers)

SpecStats == InitStats /\ [][NextStats]_vars

NextStatsSeq == StatsNext({1})

SpecStatsSeq == InitStats /\ [][NextStatsSeq]_vars

C4_AtMostHundredWhenQuiet ==
    Quiet => Cardinality(StatsOf(1, 1)) <= USER_CARD_STAT_LIMIT

(***************************************************************************)
(* SpecDecks: the deck handlers over three users whose                     *)
(* signups are complete: users 1 and 2 are verified, user 3 is not.        *)
(***************************************************************************)
InitDecks ==
    /\ users = <<VerifiedUserRow(1), VerifiedUserRow(2), PendingUser(3)>>
    /\ EmptyStore
    /\ NothingInFlight

\* No token, or the token of a user.
Callers == 0..Len(users)

\* The empty string, the name of each user, and a name nobody has.
Usernames == 0..(Len(users) + 1)

\* The names CreateDeck.post gives the decks of SpecDecks.
DeckNames == {NewDeckName(i) : i \in 1..MaxDecks}

\* The decks a request may carry: id 0 is the id of no deck, and the empty
\* name is one validate_and_normalize_deck_stuff lets through.
DeckInfos ==
    [id : 0..MaxDecks, name : {NewDeckName(1), ""}, color : {"#6a6a6a"}, public : BOOLEAN,
     description : {NewDeckDescription}]

\* The card list the requests of SpecDecks carry.
NoCards == <<>>

\* One request for each way validate_and_normalize_deck_stuff rejects here.
InvalidDeckStuff ==
    LET d == CHOOSE d \in DeckInfos : TRUE
    IN  {[typed |-> FALSE, deck |-> d, cards |-> NoCards],
         [typed |-> TRUE, deck |-> [d EXCEPT !.color = "red"], cards |-> NoCards]}

DeckStuff ==
    [typed : {TRUE}, deck : DeckInfos, cards : {NoCards}] \cup InvalidDeckStuff

\* The data UpdateDeckStuff.post reads: none when it refuses the request
\* before step 4.
DeckStuffRead(caller, username, stuff) ==
    IF username = 0 \/ WriteRefusal(caller, username, TRUE) # NoResponse
    THEN {Unread}
    ELSE stuff

\* Who asks about whom: each caller about themselves and about user 1, and
\* user 1 also with no username and with a name nobody has.
Parties ==
    {p \in Callers \X Usernames :
        \/ p[2] = p[1]
        \/ p[2] = 1
        \/ p[1] = 1 /\ p[2] \in {0, Len(users) + 1}}

\* User 2 makes decks with create-deck only: the requests that edit or
\* remove decks are those of the other parties.
Editors == Parties \ {<<2, 2>>}

NextDecks ==
    \/ \E p \in Parties : GetDecks(p[1], p[2])
    \/ \E p \in Parties, deckname \in DeckNames \cup {""} :
          GetDeckInfo(p[1], p[2], deckname)
    \/ \E p \in Editors :
          \E data \in DeckStuffRead(p[1], p[2], DeckStuff) :
              /\ UpdateDeckStuff(p[1], p[2], data)
              /\ deckSeq' <= MaxDecks
              /\ cardSeq' <= MaxCards
    \/ \E p \in Editors, deckname \in DeckNames \cup {""} :
          RemoveDeck(p[1], p[2], deckname)
    \/ \E p \in Parties :
          /\ CreateDeck(p[1], p[2])
          /\ deckSeq' <= MaxDecks
          /\ cardSeq' <= MaxCards

SpecDecks == InitDecks /\ [][NextDecks]_vars

(***************************************************************************)
(* Properties of the deck handlers.                                        *)
(***************************************************************************)
\* C1: for every deck D of a user O and every caller A, anonymous or not,
\* get-deck-info with O's username and D's name answers OKAY (200) with D's
\* info when D is public or A is O, and DECK_NOT_FOUND (404) when D is
\* private and A is not O.
C1_DeckInfoVisibility ==
    \A D \in DOMAIN decks : \A A \in 0..Len(users) :
        LET O == decks[D].owner
            r == GetDeckInfoResponse(A, users[O].username, decks[D].name)
        IN  IF decks[D].public \/ A = O
            THEN r.code = "OKAY" /\ r.status = 200 /\ r.deckinfo = DeckInfo(D)
            ELSE r.code = "DECK_NOT_FOUND" /\ r.status = 404

\* C2: for every user O and every caller A, get-decks with O's username
\* answers OKAY with all the decks of O when A is O, and with exactly the
\* public decks of O when A is anonymous or another user.
C2_DecksVisibility ==
    \A O \in UserIds : \A A \in 0..Len(users) :
        LET r == GetDecksResponse(A, users[O].username)
            owned == {d \in DOMAIN decks : decks[d].owner = O}
        IN  /\ r.code = "OKAY" /\ r.status = 200
            /\ r.decks = IF A = O THEN owned
                         ELSE {d \in owned : decks[d].public}

\* get-decks has answered OKAY while a user owns a private and a public deck.
C2_Witness ==
    /\ req.op = "get-decks"
    /\ resp = Response("OKAY", 200)
    /\ \E d, e \in DOMAIN decks :
          /\ decks[d].owner = decks[e].owner
          /\ decks[d].public /\ ~decks[e].public

\* The request req' is one of the three handlers that write decks.
WritesDecks == req'.op \in {"update-deck-stuff", "remove-deck", "create-deck"}

\* The request req' names a user, and a deck where the handler asks for one.
NamesItsTarget ==
    /\ req'.username # 0
    /\ req'.op = "remove-deck" => req'.deckname # ""

\* What C10 says of the request req': the answer by the kind of caller, and
\* nothing stored is touched.
DeniedAsStated ==
    LET A == req'.caller
        denied(code) == resp' = Response(code, 401) /\ store' = store
    IN  /\ A = 0 => denied("AUTH_REQUIRED")
        /\ (A # 0 /\ users[A].username # req'.username) => denied("ACCESS_DENIED")
        /\ (A # 0 /\ users[A].username = req'.username /\ ~users[A].is_active)
             => denied("VERIFICATION_REQUIRED")

\* C10: update-deck-stuff, remove-deck and create-deck, on a request that
\* names its target (a non-empty username, and for remove-deck a non-empty
\* deckname), answer AUTH_REQUIRED to an anonymous caller, ACCESS_DENIED to
\* a caller whose username is not the target username, and
\* VERIFICATION_REQUIRED to the owner whose account is not active; in each
\* of these cases no deck, description, card or stat is created, changed or
\* deleted.
C10_DeniedWritesChangeNothing ==
    [][(WritesDecks /\ NamesItsTarget) => DeniedAsStated]_vars

\* C10 as stated, for every request: refuted by a request without a
\* username, which is answered VALIDATION before the caller is looked at.
C10_DeniedWhateverTheRequest ==
    [][WritesDecks => DeniedAsStated]_vars

\* The owner whose account is not active has been refused while decks and
\* cards of others exist.
C10_Witness ==
    /\ req.op \in {"update-deck-stuff", "remove-deck", "create-deck"}
    /\ req.caller # 0
    /\ users[req.caller].username = req.username
    /\ resp = Response("VERIFICATION_REQUIRED", 401)
    /\ DOMAIN decks # {}
    /\ DOMAIN cards # {}

(***************************************************************************)
(* SpecCards: one verified user whose create-deck has made a first deck,   *)
(* then update-deck-stuff requests of that user with every short card      *)
(* list.                                                                   *)
(***************************************************************************)
InitCards ==
    /\ users = <<VerifiedUserRow(1)>>
    /\ decks = (1 :> NewDeck(1, 1))
    /\ descriptions = (1 :> NewDeckDescription)
    /\ cards = (1 :> SampleCard(1))
    /\ stats = EmptyTable
    /\ deckSeq = 1
    /\ cardSeq = 1
    /\ statSeq = 0
    /\ NothingInFlight

\* The first deck under its name, and a deck "a" that is new the first time.
CardsDeckInfos ==
    {[id |-> 1, name |-> NewDeckName(1), color |-> "#6a6a6a", public |-> FALSE,
      description |-> NewDeckDescription],
     [id |-> 2, name |-> "a", color |-> "#6a6a6a", public |-> FALSE,
      description |-> NewDeckDescription]}

CardEntries == [id : 0..MaxCards, question : {"q1", "q2"}, answer : {"a1"}]

CardLists == UNION {[1..n -> CardEntries] : n \in 0..MaxCardList}

CardStuff == [typed : {TRUE}, deck : CardsDeckInfos, cards : CardLists]

NextCards ==
    \E data \in CardStuff :
        /\ UpdateDeckStuff(1, 1, data)
        /\ cardSeq' <= MaxCards

SpecCards == InitCards /\ [][NextCards]_vars

\* C9: after an update-deck-stuff that answers OKAY on deck D with the card
\* list L, every card that was in D before and whose id does not occur in L
\* is gone, and for every entry of L whose id was the id of no card there is
\* a new card in D with the entry's question and answer.
C9_OmittedDeletedUnknownCreated ==
    [][(req'.op = "update-deck-stuff" /\ resp' = Response("OKAY", 200)) =>
        LET L == req'.data.cards
            D == IF req'.data.deck.id \in DOMAIN decks
                 THEN req'.data.deck.id ELSE deckSeq'
            before == {c \in DOMAIN cards : cards[c].deck = D}
        IN  /\ \A c \in before :
                  (\A i \in 1..Len(L) : L[i].id # c) => c \notin DOMAIN cards'
            /\ \A i \in 1..Len(L) :
                  L[i].id \notin DOMAIN cards =>
                      \E c \in DOMAIN cards' \ DOMAIN cards :
                          /\ cards'[c].deck = D
                          /\ cards'[c].question = L[i].question
                          /\ cards'[c].answer = L[i].answer]_vars

(***************************************************************************)
(* SpecStudy: user 1 is verified and has a first deck; a second user signs *)
(* up; decks are made and edited, and get-deck-stuff and pull-next-card    *)
(* are called by everyone.                                                 *)
(***************************************************************************)
\* The cards of the first deck as a request that keeps them lists them.
FirstCards == <<[id |-> 1, question |-> SampleCard(1).question,
                 answer |-> SampleCard(1).answer]>>

\* User 1 edits the first deck: its name kept or emptied, its flag, its
\* cards kept or dropped.
StudyStuff ==
    [typed : {TRUE},
     deck : [id : {1}, name : {NewDeckName(1), ""}, color : {"#6a6a6a"},
             public : BOOLEAN, description : {NewDeckDescription}],
     cards : {NoCards, FirstCards}]

\* What a request may name as the deck.
StudyDeckNames == DeckNames \cup {""}

NextStudy ==
    \/ /\ UsersInSight < MaxUsers
       /\ SignUpCheckQueue(1, ValidForm(2, 2))
    \/ SignUpCheckEmail(1)
    \/ SignUpCreateUser(1)
    \/ SignUpDeactivate(1, TRUE)
    \/ \E caller \in UserIds :
          /\ CreateDeck(caller, users[caller].username)
          /\ deckSeq' <= MaxDecks
          /\ cardSeq' <= MaxCards
    \/ \E data \in StudyStuff :
          /\ UpdateDeckStuff(1, 1, data)
          /\ cardSeq' <= MaxCards
    \/ \E caller \in Callers, username \in Usernames, deckname \in StudyDeckNames :
          GetDeckStuff(caller, username, deckname)
    \/ \E caller \in Callers, username \in Usernames, deckname \in StudyDeckNames :
          PullNextCard(caller, username, deckname)

SpecStudy == InitCards /\ [][NextStudy]_vars

(***************************************************************************)
(* Properties of get-deck-stuff and pull-next-card.                        *)
(***************************************************************************)
\* C11: get-deck-stuff called by the owner of a deck whose account is not
\* active answers VERIFICATION_REQUIRED and sends no deck and no cards; it
\* answers OKAY only to a caller who is authenticated, is the user named in
\* the request and is active.
C11_StuffOnlyForActiveOwner ==
    /\ \A A \in UserIds : \A D \in DecksOf(A) :
          ~users[A].is_active =>
              GetDeckStuffResponse(A, users[A].username, decks[D].name) =
                  [code |-> "VERIFICATION_REQUIRED", status |-> 401,
                   deck |-> NoDeckInfo, cards |-> NoCardsSent]
    /\ \A A \in Callers, username \in Usernames, deckname \in StudyDeckNames :
          GetDeckStuffResponse(A, username, deckname).code = "OKAY" =>
              A # 0 /\ users[A].username = username /\ users[A].is_active

\* The decks a request names: those of the user called username that are
\* called deckname.
DecksMeant(username, deckname) ==
    {d \in DOMAIN decks :
        users[decks[d].owner].username = username /\ decks[d].name = deckname}

\* What C14 says of the pull-next-card request (A, username, deckname) and
\* a response r to it.
PullAsStated(A, username, deckname, r) ==
    /\ A = 0 => r = CardResponse("AUTH_REQUIRED", 401, 0)
    /\ \A D \in DecksMeant(username, deckname) :
          /\ (A # 0 /\ ~decks[D].public /\ decks[D].owner # A)
                => r = CardResponse("DECK_NOT_FOUND", 404, 0)
          /\ (A # 0 /\ (decks[D].public \/ decks[D].owner = A)
              /\ CardsOf(D) # {})
                => r.code = "OKAY" /\ r.card # 0
    /\ r.card # 0 =>
          /\ A # 0
          /\ \E D \in DecksMeant(username, deckname) :
                decks[D].public \/ decks[D].owner = A

C15_NoCardsOrACardOfTheDeck ==
    \A D \in DOMAIN decks : \A A \in UserIds :
        (decks[D].public \/ decks[D].owner = A) =>
            \A r \in PullNextCardResponses(A, users[decks[D].owner].username,
                                           decks[D].name) :
                IF CardsOf(D) = {}
                THEN r = CardResponse("NO_CARDS_IN_DECK", 200, 0)
                ELSE /\ r.code = "OKAY" /\ r.status = 200
                     /\ r.card \in DOMAIN cards
                     /\ cards[r.card].deck = D

\* C20: a response whose code is VALIDATION has the status 400.
C20_ValidationIs400 ==
    resp.code = "VALIDATION" => resp.status = 400

(***************************************************************************)
(* SpecPull: a public deck of user 1 with MaxCards cards, from which users *)
(* 1 and 2 pull cards and on whose cards they leave feedback.  random's    *)
(* choice is fair: a card that may be chosen at every pull is chosen at    *)
(* some pull.                                                              *)
(***************************************************************************)
InitPull ==
    /\ users = <<VerifiedUserRow(1), VerifiedUserRow(2)>>
    /\ decks = (1 :> [NewDeck(1, 1) EXCEPT !.public = TRUE])
    /\ descriptions = (1 :> NewDeckDescription)
    /\ cards = [c \in 1..MaxCards |->
                   IF c = 1 THEN SampleCard(1)
                   ELSE [question |-> "q1", answer |-> "a1", deck |-> 1]]
    /\ stats = EmptyTable
    /\ deckSeq = 1
    /\ cardSeq = MaxCards
    /\ statSeq = 0
    /\ NothingInFlight

\* A pull from the deck that random.choice answers with card c.
PullCard(c) ==
    \E caller \in UserIds :
        /\ PullNextCard(caller, 1, NewDeckName(1))
        /\ resp'.card = c

NextPull ==
    \/ \E c \in 1..MaxCards : PullCard(c)
    \/ \E caller \in UserIds, c \in 1..MaxCards :
          /\ PostFeedbackSave(1, caller, Feedback(1, NewDeckName(1), c, TRUE))
          /\ statSeq' <= MaxStats
    \/ PostFeedbackCount(1)

SpecPull ==
    /\ InitPull
    /\ [][NextPull]_vars
    /\ \A c \in 1..MaxCards : WF_vars(PullCard(c))

\* C16: whatever was pulled before and whatever stats are recorded, each
\* card of the deck is a possible answer of the next pull-next-card, and
\* with pulls repeated under a fair choice every card is returned again and
\* again.
C16_EveryCardEventuallyPulled ==
    /\ [](\A caller \in UserIds :
            {r.card : r \in PullNextCardResponses(caller, 1, NewDeckName(1))}
                = CardsOf(1))
    /\ \A c \in 1..MaxCards : []<>(req.op = "pull-next-card" /\ resp.card = c)

\* The last card of the deck is returned to a user who has left feedback
\* on another card.
C16_Witness ==
    /\ req.op = "pull-next-card"
    /\ resp.card = MaxCards
    /\ \E s \in DOMAIN stats :
          stats[s].owner = req.caller /\ stats[s].card # MaxCards

(***************************************************************************)
(* SpecShared: user 1 has made two decks with create-deck, publishes,      *)
(* hides and removes them; everyone leaves feedback on their cards and     *)
(* asks for stats.  Users 1 and 2 are verified, user 3 is not.             *)
(***************************************************************************)
InitShared ==
    /\ users = <<VerifiedUserRow(1), VerifiedUserRow(2), PendingUser(3)>>
    /\ decks = (1 :> NewDeck(1, 1)) @@ (2 :> NewDeck(2, 1))
    /\ descriptions = (1 :> NewDeckDescription) @@ (2 :> NewDeckDescription)
    /\ cards = (1 :> SampleCard(1)) @@ (2 :> SampleCard(2))
    /\ stats = EmptyTable
    /\ deckSeq = 2
    /\ cardSeq = 2
    /\ statSeq = 0
    /\ NothingInFlight

\* User 1 sets the flag of a deck and keeps everything else of it.
SharedStuff ==
    {[typed |-> TRUE,
      deck |-> [id |-> d, name |-> NewDeckName(d), color |-> "#6a6a6a",
                public |-> p, description |-> NewDeckDescription],
      cards |-> <<[id |-> d, question |-> SampleCard(d).question,
                   answer |-> SampleCard(d).answer]>>] :
        d \in 1..2, p \in BOOLEAN}

SharedDeckNames == {NewDeckName(1), NewDeckName(2)}

\* Feedback on a card of a deck of user 1, the card being of that deck or
\* of the other one, and a request with a value of the wrong type.
SharedFeedbacks ==
    {Feedback(1, deckname, c, TRUE) : deckname \in SharedDeckNames, c \in 1..2}
    \cup {[Feedback(1, NewDeckName(1), 1, TRUE) EXCEPT !.typed = FALSE]}

NextShared ==
    \/ \E data \in SharedStuff :
          /\ UpdateDeckStuff(1, 1, data)
          /\ deckSeq' <= MaxDecks
    \/ \E deckname \in SharedDeckNames : RemoveDeck(1, 1, deckname)
    \/ \E caller \in Callers, data \in SharedFeedbacks :
          /\ PostFeedbackSave(1, caller, data)
          /\ statSeq' <= MaxStats
    \/ PostFeedbackCount(1)
    \/ \E caller \in Callers, username \in Usernames,
          deckname \in SharedDeckNames \cup {""} :
          GetDeckStats(caller, username, deckname)

SpecShared == InitShared /\ [][NextShared]_vars

(***************************************************************************)
(* Properties of get-deck-stats, post-feedback and what they show of       *)
(* private decks.                                                          *)
(***************************************************************************)
\* C12: for every deck D of a user O, get-deck-stats with O's username and
\* D's name answers AUTH_REQUIRED to an anonymous caller and DECK_NOT_FOUND
\* to another user when D is private; when D is public or the caller is O,
\* it answers OKAY with exactly the stats that the caller owns and whose
\* card is a card of D.
C12_StatsOfCallerOnDeck ==
    \A D \in DOMAIN decks : \A A \in Callers :
        LET O == decks[D].owner
            r == GetDeckStatsResponse(A, users[O].username, decks[D].name)
        IN  IF A = 0
            THEN r.code = "AUTH_REQUIRED" /\ r.stats = {}
            ELSE IF ~decks[D].public /\ A # O
            THEN r.code = "DECK_NOT_FOUND" /\ r.stats = {}
            ELSE /\ r.code = "OKAY"
                 /\ r.stats = {s \in DOMAIN stats :
                                  /\ stats[s].owner = A
                                  /\ stats[s].card \in DOMAIN cards
                                  /\ cards[stats[s].card].deck = D}

\* The step req' describes is the one of PostFeedback.post that checks the
\* request and saves the stat.
SavesFeedback == req'.op = "post-feedback" /\ req'.step = "save"

\* The caller of req' may leave feedback on the deck req' names: the caller
\* is authenticated and active, and the deck is public or the caller's.
MayLeaveFeedback ==
    /\ req'.caller # 0
    /\ users[req'.caller].is_active
    /\ \E D \in DecksMeant(req'.data.deck_owner_username, req'.data.deckname) :
          decks[D].public \/ decks[D].owner = req'.caller

\* What C13 says of the request req': the answer by the kind of caller and
\* the stats left as they are.
FeedbackDeniedAsStated ==
    LET A == req'.caller
        denied(code, status) == resp' = Response(code, status) /\ stats' = stats
    IN  /\ A = 0 => denied("AUTH_REQUIRED", 401)
        /\ (A # 0 /\ ~users[A].is_active) => denied("VERIFICATION_REQUIRED", 401)
        /\ (/\ A # 0
            /\ users[A].is_active
            /\ \E D \in DecksMeant(req'.data.deck_owner_username,
                                   req'.data.deckname) :
                  ~decks[D].public /\ decks[D].owner # A)
             => denied("DECK_NOT_FOUND", 404)

\* A step has added a stat.
StatCreated == DOMAIN stats' \ DOMAIN stats # {}

Shown(r) == [code |-> r.code, status |-> r.status]

\* What a caller sees of the store through the read and feedback paths: the
\* code and status of every answer to every request of SpecShared.
Observations(A) ==
    [get_decks |-> [u \in Usernames |-> Shown(GetDecksResponse(A, u))],
     get_deck_info |-> [u \in Usernames |-> [n \in SharedDeckNames |->
                           Shown(GetDeckInfoResponse(A, u, n))]],
     get_deck_stats |-> [u \in Usernames |-> [n \in SharedDeckNames |->
                            Shown(GetDeckStatsResponse(A, u, n))]],
     pull_next_card |-> [u \in Usernames |-> [n \in SharedDeckNames |->
                            {Shown(r) : r \in PullNextCardResponses(A, u, n)}]],
     post_feedback |-> [data \in SharedFeedbacks |-> FeedbackRefusal(A, data)]]

\* The step removes a private deck of user O, with what hangs on it.
RemovesPrivateDeckOf(O) ==
    /\ req'.op = "remove-deck"
    /\ resp' = Response("OKAY", 200)
    /\ \E D \in DOMAIN decks \ DOMAIN decks' :
          decks[D].owner = O /\ ~decks[D].public

StartDecks == USER_DECK_LIMIT - 2

InitDeckLimit ==
    /\ users = <<VerifiedUserRow(1)>>
    /\ decks = [d \in 1..StartDecks |-> NewDeck(d, 1)]
    /\ descriptions = [d \in 1..StartDecks |-> NewDeckDescription]
    /\ cards = [c \in 1..StartDecks |-> SampleCard(c)]
    /\ stats = EmptyTable
    /\ deckSeq = StartDecks
    /\ cardSeq = StartDecks
    /\ statSeq = 0
    /\ NothingInFlight

\* Names create-deck does not give.
OtherDeckNames == {"a", "b"}

\* A deck under a new name: id 0 is the id of no deck, id 1 that of the
\* first deck.
LimitStuff ==
    [typed : {TRUE},
     deck : [id : {0, 1}, name : OtherDeckNames, color : {"#6a6a6a"},
             public : {FALSE}, description : {NewDeckDescription}],
     cards : {NoCards}]

NextDeckLimit ==
    \/ /\ CreateDeck(1, 1)
       /\ deckSeq' <= StartDecks + DeckSlack
    \/ \E data \in LimitStuff :
          /\ UpdateDeckStuff(1, 1, data)
          /\ deckSeq' <= StartDecks + DeckSlack
    \/ \E deckname \in OtherDeckNames \cup {NewDeckName(StartDecks + 1)} :
          RemoveDeck(1, 1, deckname)

SpecDeckLimit == InitDeckLimit /\ [][NextDeckLimit]_vars

\* The request req' would make a deck: a create-deck, or an
\* update-deck-stuff with valid data and the id of no deck of the caller.
WouldMakeDeck ==
    \/ req'.op = "create-deck"
    \/ /\ req'.op = "update-deck-stuff"
       /\ DeckStuffValid(req'.data)
       /\ req'.data.deck.id \notin DecksOf(req'.caller)

\* C17: no user ever owns more than USER_DECK_LIMIT (30) decks, and a
\* create-deck or a deck-making update-deck-stuff of a user who owns 30
\* answers TOO_MUCH_DATA and leaves the store as it is.
C17_AtMostThirtyDecks ==
    /\ [](\A u \in UserIds : Cardinality(DecksOf(u)) <= USER_DECK_LIMIT)
    /\ [][(WouldMakeDeck /\ Cardinality(DecksOf(req'.caller)) = USER_DECK_LIMIT)
             => (resp' = Response("TOO_MUCH_DATA", 400) /\ store' = store)]_vars

\* Both kinds of request have been refused at 30 decks.
C17_Witness ==
    /\ Cardinality(DecksOf(1)) = USER_DECK_LIMIT
    /\ req.op = "update-deck-stuff"
    /\ req.data.deck.id = 0
    /\ resp = Response("TOO_MUCH_DATA", 400)

(***************************************************************************)
(* SpecCardLimit: user 1 has made a first deck with create-deck and has    *)
(* filled it up to DECK_CARD_LIMIT cards with one update-deck-stuff; the   *)
(* user goes on sending the cards of a deck back with more entries after   *)
(* them.                                                                   *)
(***************************************************************************)
StartCards == DECK_CARD_LIMIT

InitCardLimit ==
    /\ users = <<VerifiedUserRow(1)>>
    /\ decks = (1 :> NewDeck(1, 1))
    /\ descriptions = (1 :> NewDeckDescription)
    /\ cards = [c \in 1..StartCards |->
                   IF c = 1 THEN SampleCard(1)
                   ELSE [question |-> "q1", answer |-> "a1", deck |-> 1]]
    /\ stats = EmptyTable
    /\ deckSeq = 1
    /\ cardSeq = StartCards
    /\ statSeq = 0
    /\ NothingInFlight

\* The ids in increasing order.
AsList(ids) ==
    LET place == [c \in ids |-> Cardinality({e \in ids : e <= c})]
    IN  [i \in 1..Cardinality(ids) |-> CHOOSE c \in ids : place[c] = i]

\* The cards of a deck as get-deck-stuff sends them: all of them, or all
\* but the last when the deck is full.
KeptCards(deck) ==
    LET all == AsList(CardsOf(deck))
        entries(l) == [i \in 1..Len(l) |->
                          [id |-> l[i], question |-> cards[l[i]].question,
                           answer |-> cards[l[i]].answer]]
    IN  {entries(all)} \cup
        (IF Len(all) < StartCards THEN {}
         ELSE {entries(SubSeq(all, 1, Len(all) - 1))})

\* The entries after them: the id of no card, the id of the first card
\* (a second time, or of a card of another deck) and the id the next card
\* will get.
MoreEntries ==
    [id : {0, 1, cardSeq + 1}, question : {"q1"}, answer : {"a1"}]

\* One such entry, any number of times.
MoreLists == {[i \in 1..n |-> entry] : n \in 0..MaxCardList, entry \in MoreEntries}

CardLimitStuff ==
    UNION {{[typed |-> TRUE, deck |-> deckinfo, cards |-> kept \o more] :
               kept \in KeptCards(deckinfo.id), more \in MoreLists} :
           deckinfo \in CardsDeckInfos}

NextCardLimit ==
    \/ \E data \in CardLimitStuff :
          /\ UpdateDeckStuff(1, 1, data)
          /\ deckSeq' <= MaxDecks
          /\ cardSeq' <= StartCards + CardSlack
    \/ /\ CreateDeck(1, 1)
       /\ deckSeq' <= MaxDecks
       /\ cardSeq' <= StartCards + CardSlack

SpecCardLimit == InitCardLimit /\ [][NextCardLimit]_vars

\* C18: every deck has at most DECK_CARD_LIMIT (100) cards, whatever
\* create-deck and update-deck-stuff requests were served, card lists with
\* repeated ids, ids of no card and ids of cards of other decks included.
C18_AtMostHundredCards ==
    \A D \in DOMAIN decks : Cardinality(CardsOf(D)) <= DECK_CARD_LIMIT

\* An update-deck-stuff has filled a deck to the limit while another deck
\* has cards.
C18_Witness ==
    /\ req.op = "update-deck-stuff"
    /\ resp = Response("OKAY", 200)
    /\ Cardinality(CardsOf(req.data.deck.id)) = DECK_CARD_LIMIT
    /\ \E D \in DOMAIN decks : D # req.data.deck.id /\ CardsOf(D) # {}

(***************************************************************************)
(* Properties of the accounts under SpecAccounts.                          *)
(***************************************************************************)
\* C24: no two users have the same username and no two users have the same
\* e-mail address, signups that interleave included; a signup that answers
\* EMAIL_CONFLICT or UNAME_CONFLICT creates no user.
C24_UniqueUsernamesAndEmails ==
    /\ [](\A u, v \in UserIds :
             u # v => /\ users[u].username # users[v].username
                      /\ users[u].email # users[v].email)
    /\ [][(req'.op = "signup" /\ resp'.code \in {"EMAIL_CONFLICT", "UNAME_CONFLICT"})
             => users' = users]_vars

\* C27: a user is not active when signup creates it, and a user who is not
\* active becomes active only in a signup-verify that presents that user's
\* own token; a signup-verify whose token is malformed or nobody's changes
\* no user.
C27_InactiveUntilVerified ==
    [][/\ \A u \in 1..Len(users') :
             users'[u].is_active =>
                 \/ u \in UserIds /\ users[u].is_active
                 \/ /\ u \in UserIds
                    /\ req'.op = "signup-verify"
                    /\ req'.code = users[u].last_name
       /\ (/\ req'.op = "signup-verify"
           /\ (req'.code.len # CODE_LENGTH \/ UsersWithCode(req'.code) = {}))
             => users' = users]_vars

(***************************************************************************)
(* Properties of deck names and of create-deck.                            *)
(***************************************************************************)
\* The lengths a deck name may have.
NameLengths == 1..16

\* C25: an update-deck-stuff whose deck name is empty or longer than 16
\* characters is answered VALIDATION and stores nothing, and every stored
\* deck name has between 1 and 16 characters.
C25_DeckNamesWithinLength ==
    /\ [](\A d \in DOMAIN decks : Len(decks[d].name) \in NameLengths)
    /\ [][(/\ req'.op = "update-deck-stuff"
           /\ req'.data.typed
           /\ Len(req'.data.deck.name) \notin NameLengths)
             => (resp' = Response("VALIDATION", 400) /\ store' = store)]_vars

\* The request req' is a create-deck of an authenticated, active user for
\* themselves, who has fewer than USER_DECK_LIMIT decks.
OwnerCreatesUnderLimit ==
    /\ req'.op = "create-deck"
    /\ req'.caller # 0
    /\ req'.username = JwtUsername(req'.caller)
    /\ JwtIsActive(req'.caller)
    /\ Cardinality(DecksOf(req'.caller)) < USER_DECK_LIMIT

\* The step has made exactly one deck, private and the user's, with its
\* description and one sample card.
OneDeckMade(user) ==
    \E d \in DOMAIN decks' \ DOMAIN decks :
        /\ DOMAIN decks' = DOMAIN decks \cup {d}
        /\ decks'[d].owner = user /\ ~decks'[d].public
        /\ \A e \in DOMAIN decks : decks'[e] = decks[e]
        /\ DOMAIN descriptions' = DOMAIN descriptions \cup {d}
        /\ \E c \in DOMAIN cards' \ DOMAIN cards :
              /\ DOMAIN cards' = DOMAIN cards \cup {c}
              /\ cards'[c] = SampleCard(d)

NamesUnknownCard ==
    \E D \in DecksMeant(req'.data.deck_owner_username, req'.data.deckname) :
        req'.data.card_id \notin CardsOf(D)

\* C23: a post-feedback of a caller who may leave feedback on the deck,
\* with a card_id that is the id of no card of that deck, is answered
\* CARD_NOT_FOUND (404) and creates no stat.
C23_UnknownCardNotFound ==
    [][(SavesFeedback /\ req'.data.typed /\ MayLeaveFeedback /\ NamesUnknownCard)
         => (resp' = Response("CARD_NOT_FOUND", 404) /\ stats' = stats)]_vars

InitOwners ==
    /\ users = <<VerifiedUserRow(1), VerifiedUserRow(2)>>
    /\ decks = [d \in 1..2 |-> [NewDeck(1, d) EXCEPT !.public = TRUE]]
    /\ descriptions = [d \in 1..2 |-> NewDeckDescription]
    /\ cards = [c \in 1..2 |-> SampleCard(c)]
    /\ stats = EmptyTable
    /\ deckSeq = 2
    /\ cardSeq = 2
    /\ statSeq = 0
    /\ NothingInFlight

\* At most one card, with a new question: its id is the id of no card, of
\* the first deck's card or of the second's.
OwnersCardLists ==
    {NoCards} \cup
    {<<[id |-> c, question |-> "q1", answer |-> SampleCard(1).answer]>> :
        c \in 0..2}

\* A public deck with the id of the first deck or of the second.
OwnersStuff ==
    [typed : {TRUE},
     deck : [id : 1..2, name : {NewDeckName(1)}, color : {"#6a6a6a"},
             public : {TRUE}, description : {NewDeckDescription}],
     cards : OwnersCardLists]

\* Feedback on either card, as a card of the deck of user 1.
OwnersFeedbacks == {Feedback(1, NewDeckName(1), c, TRUE) : c \in 1..2}

NextOwners ==
    \/ \E caller \in 1..2, data \in OwnersStuff :
          /\ UpdateDeckStuff(caller, caller, data)
          /\ deckSeq' <= MaxDecks + 1
          /\ cardSeq' <= MaxCards
    \/ \E caller \in 1..2 : RemoveDeck(caller, caller, NewDeckName(1))
    \/ \E caller \in 1..2, data \in OwnersFeedbacks :
          /\ PostFeedbackSave(1, caller, data)
          /\ statSeq' <= MaxStats
    \/ PostFeedbackCount(1)

SpecOwners == InitOwners /\ [][NextOwners]_vars

(***************************************************************************)
(* Properties of ownership under SpecOwners.                               *)
(***************************************************************************)
\* The deck the update-deck-stuff request req' is about: the caller's deck
\* with the id of the request, or else the deck the request makes.
TargetDeck ==
    IF req'.data.deck.id \in DecksOf(req'.caller) THEN req'.data.deck.id
    ELSE deckSeq + 1

\* C26: an update-deck-stuff of user U leaves every deck, description and
\* card outside the deck of U it is about as it was, whatever deck id and
\* card ids it carries, and what it makes is in that deck.
C26_OnlyTargetDeckTouched ==
    [][(req'.op = "update-deck-stuff" /\ req'.data.typed) =>
          /\ \A d \in DOMAIN decks \ {TargetDeck} :
                /\ d \in DOMAIN decks' /\ decks'[d] = decks[d]
                /\ d \in DOMAIN descriptions' /\ descriptions'[d] = descriptions[d]
          /\ \A d \in DOMAIN decks' \ DOMAIN decks :
                d = TargetDeck /\ decks'[d].owner = req'.caller
          /\ \A c \in DOMAIN cards :
                cards[c].deck # TargetDeck
                    => (c \in DOMAIN cards' /\ cards'[c] = cards[c])
          /\ \A c \in DOMAIN cards' \ DOMAIN cards :
                cards'[c].deck = TargetDeck]_vars

\* Every card is in a deck there is, every stat is on a card there is and
\* of a user there is.
ReferencesResolve ==
    /\ \A c \in DOMAIN cards : cards[c].deck \in DOMAIN decks
    /\ \A s \in DOMAIN stats :
          stats[s].card \in DOMAIN cards /\ stats[s].owner \in UserIds

\* C29: every card belongs to an existing deck and every stat refers to an
\* existing card and an existing owner; once a deck is removed no card of
\* it is left, and once a card is removed (with its deck, or by
\* update-deck-stuff) no stat on it is left, whoever owns the stat.
C29_ReferentialIntegrity ==
    /\ []ReferencesResolve
    /\ [][/\ \A d \in DOMAIN decks \ DOMAIN decks' :
                \A c \in DOMAIN cards' : cards'[c].deck # d
          /\ \A c \in DOMAIN cards \ DOMAIN cards' :
                \A s \in DOMAIN stats' : stats'[s].card # c]_vars

\* User 1 has removed their deck while user 2's post-feedback on its card
\* was between stat.save() and the count: the only stat made is gone.
C29_Witness ==
    /\ req.op = "remove-deck" /\ req.caller = 1
    /\ resp = Response("OKAY", 200)
    /\ feedbacks[1].pc = "count" /\ feedbacks[1].owner = 2
    /\ statSeq = 1
    /\ stats = EmptyTable

(***************************************************************************)
(* SpecValidation: user 1 is verified and has a first deck; signup,        *)
(* update-deck-stuff and post-feedback requests arrive with data that      *)
(* passes the validation and with data that does not.                      *)
(***************************************************************************)
ValidationForms == InvalidForms \cup {ValidForm(2, 2)}

\* Deck stuff that passes, and deck stuff of the wrong type or with a
\* colour that has not seven characters.
ValidationStuff ==
    LET passes == [typed : {TRUE},
                   deck : [id : {1}, name : {NewDeckName(1), "a"},
                           color : {"#6a6a6a"}, public : {FALSE},
                           description : {NewDeckDescription}],
                   cards : {NoCards, FirstCards,
                            <<[id |-> 0, question |-> "q1", answer |-> "a1"]>>}]
    IN  passes
        \cup {[data EXCEPT !.typed = FALSE] : data \in passes}
        \cup {[data EXCEPT !.deck.color = "red"] : data \in passes}

ValidationFeedbacks ==
    {Feedback(1, NewDeckName(1), 1, TRUE),
     [Feedback(1, NewDeckName(1), 1, TRUE) EXCEPT !.typed = FALSE]}

NextValidation ==
    \/ \E data \in ValidationForms :
          /\ UsersInSight < MaxUsers
          /\ SignUpCheckQueue(1, data)
    \/ SignUpCheckEmail(1)
    \/ SignUpCreateUser(1)
    \/ SignUpDeactivate(1, TRUE)
    \/ \E username \in 0..1, data \in ValidationStuff :
          /\ UpdateDeckStuff(1, username, data)
          /\ cardSeq' <= MaxCards
    \/ \E data \in ValidationFeedbacks :
          /\ PostFeedbackSave(1, 1, data)
          /\ statSeq' <= MaxStats
    \/ PostFeedbackCount(1)

SpecValidation == InitCards /\ [][NextValidation]_vars

\* C21: whenever signup, update-deck-stuff or post-feedback answers
\* VALIDATION, the users, decks, descriptions, cards and stats are exactly
\* what they were before the request.
C21_ValidationWritesNothing ==
    [][(req'.op \in {"signup", "update-deck-stuff", "post-feedback"}
            /\ resp'.code = "VALIDATION")
          => (users' = users /\ store' = store)]_vars

\* An update-deck-stuff whose colour has not seven characters has been
\* answered VALIDATION, after a signup and a post-feedback were stored.
C21_Witness ==
    /\ req.op = "update-deck-stuff"
    /\ req.data.typed
    /\ Len(req.data.deck.color) # 7
    /\ resp = Response("VALIDATION", 400)
    /\ Len(users) = 2
    /\ stats # EmptyTable

====
